---- MODULE Spec2Model ----
(***************************************************************************)
(* Model of api/types/statictokens.go: the StaticTokens resource, its      *)
(* schema assembler, the default marshaler (Marshal / Unmarshal) and the   *)
(* process-wide marshaler registry guarded by marshalerMutex.              *)
(*                                                                         *)
(* Three specifications share the variables:                               *)
(*   Spec       the registry under arbitrary interleaving of callers       *)
(*   FairSpec   the registry with the scheduling fairness of goroutines    *)
(*              and of sync.Mutex                                          *)
(*   CodecSpec  the sequential resource / codec operations on one caller   *)
(*              owned resource                                             *)
(***************************************************************************)
EXTENDS Integers, Sequences, FiniteSets, TLC

\* ------------------------------------------------------------------ bounds

\* number of concurrent callers of the registry
NumProcs == 2
\* longest token list of a resource
MaxTokens == 2
\* longest variadic option list of a Marshal / Unmarshal call
MaxOpts == 2

Procs == 1..NumProcs

\* ------------------------------------------------------------ the registry

VARIABLES
  staticTokensMarshaler,  \* the package variable: an interface value, two words
  marshalerMutex,         \* holder of the lock, or NoProc
  pc,                     \* position of every caller
  arg,                    \* argument m of the caller's SetStaticTokensMarshaler call
  ret,                    \* value being returned by the caller's GetStaticTokensMarshaler call
  completed,              \* history: the initial strategy and the arguments of the setter
                          \*   calls that have returned
  current,                \* history: argument of the latest setter call that has returned
                          \*   (setters return in the order they took the lock)
  fresh,                  \* history, per getter call: the strategy that was current when
                          \*   the call began and the arguments of the setter calls that
                          \*   stored after that one, up to the getter's return
  obj,                    \* CodecSpec: the caller's resource object
  wire,                   \* CodecSpec: bytes and provenance of the last successful Marshal
  last                    \* CodecSpec: record of the last call made

regVars == <<staticTokensMarshaler, marshalerMutex, pc, arg, ret, completed, current, fresh>>
codecVars == <<obj, wire, last>>
vars == <<staticTokensMarshaler, marshalerMutex, pc, arg, ret, completed, current, fresh,
          obj, wire, last>>

NoProc == 0
NoStrategy == "none"

\* the strategies callers install; "teleport" is &teleportStaticTokensMarshaler{}
Strategies == {"teleport", "custom"}

\* an interface value holding strategy s: type word and data word
Iface(s) == [tab |-> s, data |-> s]

DefaultMarshaler == Iface("teleport")

NoIface == Iface(NoStrategy)

\* a Lock() that does not exclude: the accessors run unguarded
LockFreeAlways(holder) == TRUE

\* marshalerMutex.Lock() can return only when nobody holds the lock
LockFree(holder) == holder = NoProc

\* staticTokensMarshaler = m : the store of an interface value, word by word
StoreTab(cur, m) == [cur EXCEPT !.tab = m]

\* a setter that drops the second word of the store
StoreDataSkipped(cur, m) == cur

StoreData(cur, m) == [cur EXCEPT !.data = m]

\* return staticTokensMarshaler : the load of an interface value, word by word
LoadTab(r, cur) == [r EXCEPT !.tab = cur.tab]

LoadData(r, cur) == [r EXCEPT !.data = cur.data]

\* an accessor that returns without the deferred Unlock()
StillLocked(holder) == holder

\* the deferred marshalerMutex.Unlock()
Unlocked(holder) == NoProc

\* positions of a caller: inside the setter, inside the getter, past the getter
InSet(p) == pc[p] \in {"set_lock", "set_tab", "set_data", "set_ret"}

InGet(p) == pc[p] \in {"get_lock", "get_tab", "get_data", "get_ret"}

Returned(p) == pc[p] \in {"got", "codec"}

CallSet(p, m) ==
  /\ pc[p] = "idle"
  /\ pc' = [pc EXCEPT ![p] = "set_lock"]
  /\ arg' = [arg EXCEPT ![p] = m]
  /\ UNCHANGED <<staticTokensMarshaler, marshalerMutex, ret, completed, current, fresh, codecVars>>

SetLock(p) ==
  /\ pc[p] = "set_lock"
  /\ LockFree(marshalerMutex)
  /\ marshalerMutex' = p
  /\ pc' = [pc EXCEPT ![p] = "set_tab"]
  /\ UNCHANGED <<staticTokensMarshaler, arg, ret, completed, current, fresh, codecVars>>

SetStoreTab(p) ==
  /\ pc[p] = "set_tab"
  /\ staticTokensMarshaler' = StoreTab(staticTokensMarshaler, arg[p])
  /\ pc' = [pc EXCEPT ![p] = "set_data"]
  /\ UNCHANGED <<marshalerMutex, arg, ret, completed, current, fresh, codecVars>>

SetStoreData(p) ==
  /\ pc[p] = "set_data"
  /\ staticTokensMarshaler' = StoreData(staticTokensMarshaler, arg[p])
  /\ fresh' = [q \in Procs |-> IF InGet(q) THEN fresh[q] \cup {arg[p]} ELSE fresh[q]]
  /\ pc' = [pc EXCEPT ![p] = "set_ret"]
  /\ UNCHANGED <<marshalerMutex, arg, ret, completed, current, codecVars>>

SetReturn(p) ==
  /\ pc[p] = "set_ret"
  /\ marshalerMutex' = Unlocked(marshalerMutex)
  /\ completed' = completed \cup {arg[p]}
  /\ current' = arg[p]
  /\ pc' = [pc EXCEPT ![p] = "idle"]
  /\ arg' = [arg EXCEPT ![p] = NoStrategy]
  /\ UNCHANGED <<staticTokensMarshaler, ret, fresh, codecVars>>

CallGet(p) ==
  /\ pc[p] = "idle"
  /\ pc' = [pc EXCEPT ![p] = "get_lock"]
  /\ fresh' = [fresh EXCEPT ![p] =
                 {current} \cup {arg[q] : q \in {r \in Procs : pc[r] = "set_ret"}}]
  /\ UNCHANGED <<staticTokensMarshaler, marshalerMutex, arg, ret, completed, current, codecVars>>

GetLock(p) ==
  /\ pc[p] = "get_lock"
  /\ LockFree(marshalerMutex)
  /\ marshalerMutex' = p
  /\ pc' = [pc EXCEPT ![p] = "get_tab"]
  /\ UNCHANGED <<staticTokensMarshaler, arg, ret, completed, current, fresh, codecVars>>

GetLoadTab(p) ==
  /\ pc[p] = "get_tab"
  /\ ret' = [ret EXCEPT ![p] = LoadTab(ret[p], staticTokensMarshaler)]
  /\ pc' = [pc EXCEPT ![p] = "get_data"]
  /\ UNCHANGED <<staticTokensMarshaler, marshalerMutex, arg, completed, current, fresh, codecVars>>

GetLoadData(p) ==
  /\ pc[p] = "get_data"
  /\ ret' = [ret EXCEPT ![p] = LoadData(ret[p], staticTokensMarshaler)]
  /\ pc' = [pc EXCEPT ![p] = "get_ret"]
  /\ UNCHANGED <<staticTokensMarshaler, marshalerMutex, arg, completed, current, fresh, codecVars>>

GetReturn(p) ==
  /\ pc[p] = "get_ret"
  /\ marshalerMutex' = Unlocked(marshalerMutex)
  /\ pc' = [pc EXCEPT ![p] = "got"]
  /\ UNCHANGED <<staticTokensMarshaler, arg, ret, completed, current, fresh, codecVars>>

\* the caller invokes Marshal or Unmarshal on the strategy it obtained
CodecBegin(p) ==
  /\ pc[p] = "got"
  /\ pc' = [pc EXCEPT ![p] = "codec"]
  /\ UNCHANGED <<staticTokensMarshaler, marshalerMutex, arg, ret, completed, current, fresh, codecVars>>

\* that call ends, after any length of time
CodecEnd(p) ==
  /\ pc[p] = "codec"
  /\ pc' = [pc EXCEPT ![p] = "idle"]
  /\ ret' = [ret EXCEPT ![p] = NoIface]
  /\ fresh' = [fresh EXCEPT ![p] = {}]
  /\ UNCHANGED <<staticTokensMarshaler, marshalerMutex, arg, completed, current, codecVars>>

RegInit ==
  /\ staticTokensMarshaler = DefaultMarshaler
  /\ marshalerMutex = NoProc
  /\ pc = [p \in Procs |-> "idle"]
  /\ arg = [p \in Procs |-> NoStrategy]
  /\ ret = [p \in Procs |-> NoIface]
  /\ completed = {"teleport"}
  /\ current = "teleport"
  /\ fresh = [p \in Procs |-> {}]

\* the registry specifications leave the codec's variables alone
CodecIdle ==
  /\ obj = [type |-> "nil"]
  /\ wire = [type |-> "none"]
  /\ last = [op |-> "none"]

Init == RegInit /\ CodecIdle

Next ==
  \E p \in Procs :
       \/ \E m \in Strategies : CallSet(p, m)
       \/ SetLock(p)
       \/ SetStoreTab(p)
       \/ SetStoreData(p)
       \/ SetReturn(p)
       \/ CallGet(p)
       \/ GetLock(p)
       \/ GetLoadTab(p)
       \/ GetLoadData(p)
       \/ GetReturn(p)
       \/ CodecBegin(p)
       \/ CodecEnd(p)

Spec == Init /\ [][Next]_vars

\* Goroutines that are runnable are eventually run (weak fairness of every step
\* inside the critical section and of the return), and sync.Mutex hands the lock
\* to a waiter that has been starved (starvation mode), so a caller that waits in
\* Lock() while the lock is released again and again eventually gets it (strong
\* fairness of the two Lock() steps).  Nothing forces a caller to start a call,
\* and nothing bounds the length of an encode / decode call.
Fairness ==
  \A p \in Procs :
    /\ WF_vars(SetStoreTab(p) \/ SetStoreData(p) \/ SetReturn(p))
    /\ WF_vars(GetLoadTab(p) \/ GetLoadData(p) \/ GetReturn(p))
    /\ SF_vars(SetLock(p))
    /\ SF_vars(GetLock(p))

FairSpec == Init /\ [][Next]_vars /\ Fairness

\* ------------------------------------------------- resources and options

V2Type == "StaticTokensV2"

\* a StaticTokens implementation other than *StaticTokensV2
OtherType == "OtherStaticTokens"

KindStaticTokens == "static_tokens"

V2 == "v2"

MetaNameStaticTokens == "static_tokens"

DefaultNamespace == "default"

Names == {"", MetaNameStaticTokens}

Namespaces == {"", DefaultNamespace}

SubKinds == {"", "sub"}

\* resource IDs and expiry times; 0 is "unset" / the zero time
ResourceIDs == {0, 7}

ExpiryTimes == {0, 5}

TokenNames == {"a", "b"}

TokenLists == UNION {[1..n -> TokenNames] : n \in 0..MaxTokens}

Metadatas ==
  [Name : Names, Namespace : Namespaces, ID : ResourceIDs, Expires : ExpiryTimes]

StaticTokensV2s ==
  [type : {V2Type}, Kind : {KindStaticTokens}, SubKind : SubKinds, Version : {V2},
   Metadata : Metadatas, Spec : [StaticTokens : TokenLists]]

\* var staticTokens StaticTokensV2 : the zero value
ZeroStaticTokensV2 ==
  [type |-> V2Type, Kind |-> "", SubKind |-> "", Version |-> "",
   Metadata |-> [Name |-> "", Namespace |-> "", ID |-> 0, Expires |-> 0],
   Spec |-> [StaticTokens |-> <<>>]]

OtherStaticTokens ==
  [type |-> OtherType, Kind |-> KindStaticTokens, SubKind |-> "", Version |-> "v3",
   Metadata |-> [Name |-> MetaNameStaticTokens, Namespace |-> DefaultNamespace,
                 ID |-> 7, Expires |-> 0],
   Spec |-> [StaticTokens |-> <<>>]]

Resources == StaticTokensV2s \cup {OtherStaticTokens}

NoResource == [type |-> "nil"]

\* the nil []byte of a failed Marshal
NoBytes == << [k |-> "<nil>", v |-> ""] >>

NoErr == [kind |-> "nil", msg |-> "", wrapped |-> FALSE]

\* trace.BadParameter(msg)
BadParameter(msg) == [kind |-> "BadParameter", msg |-> msg, wrapped |-> FALSE]

\* trace.Wrap(err): nil stays nil, an error keeps its kind and message
Wrap(err) == IF err = NoErr THEN NoErr ELSE [err EXCEPT !.wrapped = TRUE]

\* the marshal options; "Failing" stands for a MarshalOption that returns an error
OptionError == [kind |-> "OptionError", msg |-> "option failed", wrapped |-> FALSE]

Options ==
  { [name |-> "SkipValidation", val |-> 0],
    [name |-> "PreserveResourceID", val |-> 0],
    [name |-> "WithResourceID", val |-> 42],
    [name |-> "WithExpires", val |-> 9],
    [name |-> "Failing", val |-> 0] }

OptLists == UNION {[1..n -> Options] : n \in 0..MaxOpts}

ZeroMarshalConfig ==
  [ID |-> 0, Expires |-> 0, SkipValidation |-> FALSE, PreserveResourceID |-> FALSE]

ApplyOption(cfg, o) ==
  CASE o.name = "SkipValidation" -> [cfg EXCEPT !.SkipValidation = TRUE]
    [] o.name = "PreserveResourceID" -> [cfg EXCEPT !.PreserveResourceID = TRUE]
    [] o.name = "WithResourceID" -> [cfg EXCEPT !.ID = o.val]
    [] o.name = "WithExpires" -> [cfg EXCEPT !.Expires = o.val]
    [] OTHER -> cfg

RECURSIVE CollectInto(_, _)
CollectInto(cfg, opts) ==
  IF opts = <<>> THEN [cfg |-> cfg, err |-> NoErr]
  ELSE IF Head(opts).name = "Failing"
       THEN [cfg |-> ZeroMarshalConfig, err |-> Wrap(OptionError)]
       ELSE CollectInto(ApplyOption(cfg, Head(opts)), Tail(opts))

\* CollectOptions(opts): applies the options in order to a zero MarshalConfig and
\* stops at the first one that fails
CollectOptions(opts) == CollectInto(ZeroMarshalConfig, opts)

\* one option list for every outcome CollectOptions has on the lists of OptLists:
\* Marshal and Unmarshal read their options through CollectOptions only
OptReps ==
  { CHOOSE o \in OptLists : CollectOptions(o) = c : c \in {CollectOptions(o) : o \in OptLists} }

\* ------------------------------------------------------- resource methods

\* func (c *StaticTokensV2) SetResourceID(id int64), on the object at address a
SetResourceID(heap, a, id) == [heap EXCEPT ![a].Metadata.ID = id]

\* func (c *StaticTokensV2) SetExpiry(expires time.Time)
SetExpiry(c, expires) == [c EXCEPT !.Metadata.Expires = expires]

\* Metadata.CheckAndSetDefaults of the envelope: namespace defaulted, name required
MetadataCheckAndSetDefaults(m) ==
  LET filled == IF m.Namespace = "" THEN [m EXCEPT !.Namespace = DefaultNamespace] ELSE m
  IN IF filled.Name = ""
     THEN [m |-> filled, err |-> BadParameter("missing parameter Name")]
     ELSE [m |-> filled, err |-> NoErr]

\* a CheckAndSetDefaults that drops the envelope's error
CheckAndSetDefaultsNoError(c) ==
  [c |-> [c EXCEPT !.Metadata = MetadataCheckAndSetDefaults(c.Metadata).m], err |-> NoErr]

\* func (c *StaticTokensV2) CheckAndSetDefaults() error
CheckAndSetDefaults(c) ==
  LET r == MetadataCheckAndSetDefaults(c.Metadata)
  IN [c |-> [c EXCEPT !.Metadata = r.m], err |-> Wrap(r.err)]

\* func NewStaticTokens(spec StaticTokensSpecV2) (StaticTokens, error)
NewStaticTokens(spec) ==
  LET st == [type |-> V2Type, Kind |-> KindStaticTokens, SubKind |-> "", Version |-> V2,
             Metadata |-> [Name |-> MetaNameStaticTokens, Namespace |-> DefaultNamespace,
                           ID |-> 0, Expires |-> 0],
             Spec |-> spec]
      r == CheckAndSetDefaults(st)
  IN IF r.err # NoErr THEN [res |-> NoResource, err |-> Wrap(r.err)]
     ELSE [res |-> r.c, err |-> NoErr]

\* func DefaultStaticTokens() StaticTokens
DefaultStaticTokens ==
  [type |-> V2Type, Kind |-> KindStaticTokens, SubKind |-> "", Version |-> V2,
   Metadata |-> [Name |-> MetaNameStaticTokens, Namespace |-> DefaultNamespace,
                 ID |-> 0, Expires |-> 0],
   Spec |-> [StaticTokens |-> <<>>]]

\* ---------------------------------------------------------------- schema

\* Strings are sequences of tokens; "%v" is the formatting verb.

\* fmt.Sprintf(format, args...): every verb is replaced by the next argument
RECURSIVE Sprintf(_, _)
Sprintf(format, args) ==
  IF format = <<>> THEN <<>>
  ELSE IF Head(format) = "%v"
       THEN IF args = <<>>
            THEN <<"%!v(MISSING)">> \o Sprintf(Tail(format), args)
            ELSE Head(args) \o Sprintf(Tail(format), Tail(args))
       ELSE <<Head(format)>> \o Sprintf(Tail(format), args)

\* const StaticTokensSpecSchemaTemplate
StaticTokensSpecSchemaTemplate == <<"{", "static_tokens", "%v", "}">>

\* the envelope schema template and the shared fragments it embeds
V2SchemaTemplate ==
  <<"{", "kind", "sub_kind", "version", "metadata", "%v", "spec", "%v", "definitions", "%v", "}">>

MetadataSchema == <<"{", "name", "namespace", "id", "expires", "}">>

DefaultDefinitions == <<"{", "}">>

\* extension fragments a caller may pass: none, or one extra property
ExtensionSchemas == {<<>>, <<"ext_prop">>, <<"ext_prop", "ext_other">>}

\* func GetStaticTokensSchema(extensionSchema string) string
GetStaticTokensSchema(extensionSchema) ==
  LET declared == <<>>          \* var staticTokensSchema string
      staticTokensSchema ==
        IF declared = <<>>
        THEN Sprintf(StaticTokensSpecSchemaTemplate, << <<>> >>)
        ELSE Sprintf(StaticTokensSpecSchemaTemplate, << <<",">> \o extensionSchema >>)
  IN Sprintf(V2SchemaTemplate, <<MetadataSchema, staticTokensSchema, DefaultDefinitions>>)

\* GetStaticTokensSchema(""), the schema Unmarshal validates against
BaseSchema == GetStaticTokensSchema(<<>>)

\* ----------------------------------------------------- the encoding library

\* A document is a sequence of properties [k, v].  A zero resource ID, an unset
\* expiry and an empty sub-kind are omitted (omitempty).

Prop(k, v) == [k |-> k, v |-> v]

\* utils.FastMarshal(resource)
FastMarshal(r) ==
  << Prop("kind", r.Kind) >>
  \o (IF r.SubKind = "" THEN <<>> ELSE << Prop("sub_kind", r.SubKind) >>)
  \o << Prop("version", r.Version), Prop("name", r.Metadata.Name),
        Prop("namespace", r.Metadata.Namespace) >>
  \o (IF r.Metadata.ID = 0 THEN <<>> ELSE << Prop("id", r.Metadata.ID) >>)
  \o (IF r.Metadata.Expires = 0 THEN <<>> ELSE << Prop("expires", r.Metadata.Expires) >>)
  \o << Prop("static_tokens", r.Spec.StaticTokens) >>

SetField(c, t) ==
  CASE t.k = "kind" -> [c EXCEPT !.Kind = t.v]
    [] t.k = "sub_kind" -> [c EXCEPT !.SubKind = t.v]
    [] t.k = "version" -> [c EXCEPT !.Version = t.v]
    [] t.k = "name" -> [c EXCEPT !.Metadata.Name = t.v]
    [] t.k = "namespace" -> [c EXCEPT !.Metadata.Namespace = t.v]
    [] t.k = "id" -> [c EXCEPT !.Metadata.ID = t.v]
    [] t.k = "expires" -> [c EXCEPT !.Metadata.Expires = t.v]
    [] t.k = "static_tokens" -> [c EXCEPT !.Spec.StaticTokens = t.v]
    [] OTHER -> c

RECURSIVE DecodeInto(_, _)
DecodeInto(c, bytes) ==
  IF Len(bytes) = 0 THEN c ELSE DecodeInto(SetField(c, Head(bytes)), Tail(bytes))

Malformed(bytes) == \E i \in 1..Len(bytes) : bytes[i].k = "<malformed>"

DecodeError(msg) == [kind |-> "DecodeError", msg |-> msg, wrapped |-> FALSE]

\* utils.FastUnmarshal(bytes, &target): unknown properties are ignored
FastUnmarshal(bytes, target) ==
  IF Malformed(bytes) THEN [val |-> target, err |-> DecodeError("invalid character")]
  ELSE [val |-> DecodeInto(target, bytes), err |-> NoErr]

\* utils.UnmarshalWithSchema(schema, &target, bytes): a property the schema does
\* not name is a violation (additionalProperties: false)
UnmarshalWithSchema(schema, target, bytes) ==
  IF Malformed(bytes) THEN [val |-> target, err |-> DecodeError("invalid character")]
  ELSE IF \E i \in 1..Len(bytes) : \A j \in 1..Len(schema) : schema[j] # bytes[i].k
       THEN [val |-> target, err |-> DecodeError("additional property not allowed")]
       ELSE [val |-> DecodeInto(target, bytes), err |-> NoErr]

\* ------------------------------------------------- the default marshaler

\* overrides applied when the option is zero instead of non-zero
ApplyOverridesInverted(st, cfg) ==
  LET a == IF cfg.ID = 0 THEN SetResourceID(<<st>>, 1, cfg.ID)[1] ELSE st
  IN IF cfg.Expires = 0 THEN SetExpiry(a, cfg.Expires) ELSE a

\* Unmarshal, the overrides after defaulting
ApplyOverrides(st, cfg) ==
  LET a == IF cfg.ID # 0 THEN SetResourceID(<<st>>, 1, cfg.ID)[1] ELSE st
  IN IF ~(cfg.Expires = 0) THEN SetExpiry(a, cfg.Expires) ELSE a

\* Unmarshal, from option collection on
UnmarshalNonEmpty(bytes, opts) ==
  LET c == CollectOptions(opts)
  IN IF c.err # NoErr THEN [res |-> NoResource, err |-> Wrap(c.err)]
     ELSE
       LET d == IF c.cfg.SkipValidation
                THEN FastUnmarshal(bytes, ZeroStaticTokensV2)
                ELSE UnmarshalWithSchema(BaseSchema, ZeroStaticTokensV2, bytes)
       IN IF d.err # NoErr THEN [res |-> NoResource, err |-> BadParameter(d.err.msg)]
          ELSE
            LET k == CheckAndSetDefaults(d.val)
            IN IF k.err # NoErr THEN [res |-> NoResource, err |-> Wrap(k.err)]
               ELSE [res |-> ApplyOverrides(k.c, c.cfg), err |-> NoErr]

\* an Unmarshal without the check of len(bytes)
UnmarshalUnchecked(bytes, opts) == UnmarshalNonEmpty(bytes, opts)

\* func (t *teleportStaticTokensMarshaler) Unmarshal(bytes, opts...)
Unmarshal(bytes, opts) ==
  IF Len(bytes) = 0
  THEN [res |-> NoResource, err |-> BadParameter("missing resource data")]
  ELSE UnmarshalNonEmpty(bytes, opts)

\* The caller's object lives at address 1 of a heap; Marshal may allocate.
CallerAddr == 1

\* the reset of the resource ID done on the caller's object itself
StripInPlace(heap, resource) ==
  [heap |-> SetResourceID(heap, resource, 0), resource |-> resource]

\* copy := *resource; copy.SetResourceID(0); resource = &copy
StripOnCopy(heap, resource) ==
  LET copy == Len(heap) + 1
      allocated == Append(heap, heap[resource])
  IN [heap |-> SetResourceID(allocated, copy, 0), resource |-> copy]

\* the *StaticTokensV2 case that strips the ID whatever the options say
MarshalV2AlwaysStrip(heap, resource, cfg) ==
  LET s == StripOnCopy(heap, resource)
  IN [heap |-> s.heap, bytes |-> FastMarshal(s.heap[s.resource]), err |-> NoErr]

\* Marshal, the *StaticTokensV2 case
MarshalV2(heap, resource, cfg) ==
  LET s == IF ~cfg.PreserveResourceID
           THEN StripOnCopy(heap, resource)
           ELSE [heap |-> heap, resource |-> resource]
  IN [heap |-> s.heap, bytes |-> FastMarshal(s.heap[s.resource]), err |-> NoErr]

UnrecognizedVersion == BadParameter("unrecognized resource version")

\* a Marshal that switches on the type before it collects the options
MarshalTypeFirst(heap, c, opts) ==
  IF heap[c].type # V2Type
  THEN [heap |-> heap, bytes |-> NoBytes, err |-> UnrecognizedVersion]
  ELSE LET o == CollectOptions(opts)
       IN IF o.err # NoErr
          THEN [heap |-> heap, bytes |-> NoBytes, err |-> Wrap(o.err)]
          ELSE MarshalV2(heap, c, o.cfg)

\* func (t *teleportStaticTokensMarshaler) Marshal(c StaticTokens, opts...)
Marshal(heap, c, opts) ==
  LET o == CollectOptions(opts)
  IN IF o.err # NoErr
     THEN [heap |-> heap, bytes |-> NoBytes, err |-> Wrap(o.err)]
     ELSE IF heap[c].type = V2Type
          THEN MarshalV2(heap, c, o.cfg)
          ELSE [heap |-> heap, bytes |-> NoBytes, err |-> UnrecognizedVersion]

\* ------------------------------------------- the codec as a state machine

\* One caller owns the resource obj and calls the operations in any order.

NoWire == [type |-> "none"]

EmptyBytes == <<>>

MalformedBytes == << Prop("<malformed>", "") >>

\* a well-formed document with a property the schema does not name
ExtraPropBytes == FastMarshal(DefaultStaticTokens) \o << Prop("extra", "x") >>

\* a well-formed document without a name
NamelessBytes == << Prop("kind", KindStaticTokens), Prop("version", V2) >>

HandBytes == {EmptyBytes, MalformedBytes, ExtraPropBytes, NamelessBytes}

\* staticTokensMarshaler.Marshal(obj, opts...)
DoMarshal(opts) ==
  LET m == Marshal(<<obj>>, CallerAddr, opts)
      c == CollectOptions(opts)
  IN /\ obj' = m.heap[CallerAddr]
     /\ last' = [op |-> "Marshal", before |-> obj, collect |-> c,
                 bytes |-> m.bytes, err |-> m.err]
     /\ wire' = IF m.err = NoErr
                THEN [type |-> "bytes", bytes |-> m.bytes, src |-> obj,
                      preserve |-> c.cfg.PreserveResourceID]
                ELSE wire
     /\ UNCHANGED regVars

\* staticTokensMarshaler.Unmarshal(bytes, opts...) on the bytes of the last Marshal
DoUnmarshalWire(opts) ==
  /\ wire.type = "bytes"
  /\ LET u == Unmarshal(wire.bytes, opts)
     IN last' = [op |-> "Unmarshal", fromWire |-> TRUE, empty |-> Len(wire.bytes) = 0,
                 collect |-> CollectOptions(opts), res |-> u.res, err |-> u.err]
  /\ UNCHANGED <<obj, wire, regVars>>

\* staticTokensMarshaler.Unmarshal(bytes, opts...) on bytes from elsewhere, by a
\* caller that holds no bytes of its own (the result does not depend on them)
DoUnmarshalBytes(bytes, opts) ==
  /\ wire = NoWire
  /\ LET u == Unmarshal(bytes, opts)
     IN last' = [op |-> "Unmarshal", fromWire |-> FALSE, empty |-> Len(bytes) = 0,
                 collect |-> CollectOptions(opts), res |-> u.res, err |-> u.err]
  /\ UNCHANGED <<obj, wire, regVars>>

\* obj.CheckAndSetDefaults()
DoCheckAndSetDefaults ==
  /\ obj.type = V2Type
  /\ LET r == CheckAndSetDefaults(obj)
         again == last.op = "CheckAndSetDefaults"
     IN /\ obj' = r.c
        /\ last' = [op |-> "CheckAndSetDefaults", before |-> obj, err |-> r.err,
                    again |-> again, prevErr |-> IF again THEN last.err ELSE NoErr]
  /\ UNCHANGED <<wire, regVars>>

\* GetStaticTokensSchema(extensionSchema)
DoGetStaticTokensSchema(extensionSchema) ==
  /\ last' = [op |-> "GetStaticTokensSchema", ext |-> extensionSchema,
              schema |-> GetStaticTokensSchema(extensionSchema)]
  /\ UNCHANGED <<obj, wire, regVars>>

\* obj, err = NewStaticTokens(spec): the caller starts over with a new resource
DoNewStaticTokens(spec) ==
  LET n == NewStaticTokens(spec)
  IN /\ obj' = IF n.err = NoErr THEN n.res ELSE obj
     /\ last' = [op |-> "NewStaticTokens", res |-> n.res, err |-> n.err]
     /\ wire' = NoWire
     /\ UNCHANGED regVars

\* obj = DefaultStaticTokens(): the caller starts over with the default resource
DoDefaultStaticTokens ==
  /\ obj' = DefaultStaticTokens
  /\ last' = [op |-> "DefaultStaticTokens"]
  /\ wire' = NoWire
  /\ UNCHANGED regVars

CodecInit ==
  /\ RegInit
  /\ obj \in Resources
  /\ wire = NoWire
  /\ last = [op |-> "none"]

CodecNext ==
  \/ \E opts \in OptReps : DoMarshal(opts)
  \/ \E opts \in OptReps : DoUnmarshalWire(opts)
  \/ \E bytes \in HandBytes, opts \in OptReps : DoUnmarshalBytes(bytes, opts)
  \/ DoCheckAndSetDefaults
  \/ \E e \in ExtensionSchemas : DoGetStaticTokensSchema(e)
  \/ \E t \in TokenLists : DoNewStaticTokens([StaticTokens |-> t])
  \/ DoDefaultStaticTokens

CodecSpec == CodecInit /\ [][CodecNext]_vars

\* --------------------------------------------------------- registry claims

C2_SwapObservedBySubsequentReads ==
  \A p \in Procs :
    Returned(p) => \E s \in fresh[p] : ret[p] = Iface(s)

\* a setter call with the custom strategy has returned, the default was current
\* again when the getter began (so it was set again after custom), no setter
\* stored during the getter, and the getter returned the default
C2_Witness ==
  \E p \in Procs :
    /\ pc[p] = "got"
    /\ "custom" \in completed
    /\ fresh[p] = {"teleport"}
    /\ ret[p] = Iface("teleport")

LockNotHeldInCodec == \A p \in Procs : Returned(p) => marshalerMutex # p

\* C10: a caller that holds a strategy obtained from the getter, or is inside
\* Marshal / Unmarshal on it, does not hold the registry lock; and every setter
\* and getter call that has begun eventually returns, however long the other
\* callers stay in encode / decode calls.
C10_LockNotHeldAcrossCodecAndCallsReturn ==
  /\ []LockNotHeldInCodec
  /\ \A p \in Procs : InSet(p) ~> (pc[p] = "idle")
  /\ \A p \in Procs : InGet(p) ~> (pc[p] = "got")

\* one caller is inside an encode / decode call while another holds the lock
C10_Witness ==
  \E p, q \in Procs :
    /\ pc[p] = "codec"
    /\ p # q
    /\ marshalerMutex = q

\* ------------------------------------------------------------ codec claims

\* C3: Marshal never mutates the caller's resource: after every Marshal call,
\* failed or not and whatever the options, the caller's object is what it was
\* before the call, resource ID included.
C3_MarshalLeavesCallerResource == last.op = "Marshal" => obj = last.before

\* a Marshal without PreserveResourceID succeeded on a resource with ID 7: the
\* bytes carry no ID and the caller's object still has ID 7
C3_Witness ==
  /\ last.op = "Marshal"
  /\ last.err = NoErr
  /\ ~last.collect.cfg.PreserveResourceID
  /\ last.before.Metadata.ID = 7
  /\ obj.Metadata.ID = 7
  /\ \A i \in 1..Len(last.bytes) : last.bytes[i].k # "id"

\* the last call decoded, with no options, the bytes Marshal produced from the
\* resource wire.src, whose name is not empty
RoundTripCase ==
  /\ last.op = "Unmarshal"
  /\ last.fromWire
  /\ last.collect = CollectOptions(<<>>)
  /\ wire.src.Metadata.Name # ""

RoundTripFields ==
  /\ last.err = NoErr
  /\ last.res.type = V2Type
  /\ last.res.Kind = wire.src.Kind
  /\ last.res.Version = wire.src.Version
  /\ last.res.SubKind = wire.src.SubKind
  /\ last.res.Metadata.Name = wire.src.Metadata.Name
  /\ last.res.Metadata.Expires = wire.src.Metadata.Expires
  /\ last.res.Spec.StaticTokens = wire.src.Spec.StaticTokens
  /\ last.res.Metadata.ID = IF wire.preserve THEN wire.src.Metadata.ID ELSE 0

C5_OverridePrecedence ==
  (last.op = "Unmarshal" /\ last.err = NoErr) =>
    /\ last.collect.cfg.ID # 0 => last.res.Metadata.ID = last.collect.cfg.ID
    /\ last.collect.cfg.Expires # 0 => last.res.Metadata.Expires = last.collect.cfg.Expires

\* bytes holding ID 7 and expiry 5 were decoded with ID 42 and expiry 9 as options
C5_Witness ==
  /\ last.op = "Unmarshal"
  /\ last.fromWire
  /\ last.err = NoErr
  /\ wire.preserve
  /\ wire.src.Metadata.ID = 7
  /\ wire.src.Metadata.Expires = 5
  /\ last.collect.cfg.ID = 42
  /\ last.collect.cfg.Expires = 9
  /\ last.res.Metadata.ID = 42
  /\ last.res.Metadata.Expires = 9

\* C6: Unmarshal of zero-length bytes fails with the BadParameter error of the
\* empty check and returns no resource, for every option list, also one whose
\* collection fails and one with SkipValidation.
C6_EmptyInputRejected ==
  (last.op = "Unmarshal" /\ last.empty) =>
    /\ last.err = BadParameter("missing resource data")
    /\ last.res = NoResource

\* zero-length bytes were decoded with an option list whose collection fails
C6_Witness ==
  /\ last.op = "Unmarshal"
  /\ last.empty
  /\ last.collect.err # NoErr
  /\ last.err.kind = "BadParameter"

\* C7 as stated: Marshal of a resource that is not a *StaticTokensV2 returns the
\* BadParameter type-mismatch error and no bytes for every option list, also
\* when option collection would fail.
C7_TypeCheckFirstAsStated ==
  (last.op = "Marshal" /\ last.before.type # V2Type) =>
    /\ last.err = UnrecognizedVersion
    /\ last.bytes = NoBytes

\* C7 amended: Marshal of a resource that is not a *StaticTokensV2 returns no
\* bytes and an error for every option list: the option-collection error when
\* option collection fails (it comes first), the BadParameter type-mismatch
\* error otherwise.
C7_TypeCheckAfterOptions ==
  (last.op = "Marshal" /\ last.before.type # V2Type) =>
    /\ last.bytes = NoBytes
    /\ last.err = IF last.collect.err # NoErr THEN Wrap(last.collect.err)
                  ELSE UnrecognizedVersion

\* Marshal of the other type with a failing option returned the option's error
C7_Witness ==
  /\ last.op = "Marshal"
  /\ last.before.type = OtherType
  /\ last.collect.err # NoErr
  /\ last.err.kind = "OptionError"
  /\ last.bytes = NoBytes

\* whether sub occurs in s
Contains(s, sub) ==
  \E i \in 0..(Len(s) - Len(sub)) : SubSeq(s, i + 1, i + Len(sub)) = sub

\* C8: GetStaticTokensSchema renders the template without extra properties for an
\* empty fragment, and for a non-empty fragment injects it, comma-prefixed, so
\* that the schema contains the fragment and differs from the schema of the
\* empty fragment.
C8_ExtensionInjected ==
  last.op = "GetStaticTokensSchema" =>
    IF last.ext = <<>>
    THEN last.schema = Sprintf(V2SchemaTemplate,
                         <<MetadataSchema, Sprintf(StaticTokensSpecSchemaTemplate, << <<>> >>),
                           DefaultDefinitions>>)
    ELSE /\ Contains(last.schema, <<",">> \o last.ext)
         /\ last.schema # BaseSchema

\* C9: a second CheckAndSetDefaults in a row changes nothing and has the outcome
\* of the first; after a success name and namespace are not empty; a resource
\* with an empty name fails, and keeps its empty name.
C9_IdempotentDefaulting ==
  last.op = "CheckAndSetDefaults" =>
    /\ last.again => (obj = last.before /\ last.err = last.prevErr)
    /\ last.err = NoErr => (obj.Metadata.Name # "" /\ obj.Metadata.Namespace # "")
    /\ last.before.Metadata.Name = "" =>
         (last.err.kind = "BadParameter" /\ obj.Metadata.Name = "")

\* CheckAndSetDefaults was called twice in a row on a resource without a name
C9_Witness ==
  /\ last.op = "CheckAndSetDefaults"
  /\ last.again
  /\ last.err # NoErr
  /\ obj.Metadata.Name = ""
  /\ obj.Metadata.Namespace = DefaultNamespace

====
